---- MODULE Spec2Model ----
(***************************************************************************)
(* SecurityMonitor.monitor (src/monitor.py) and PQCPlugin.execute          *)
(* (src/pqc_plugin.py) as state machines.                                  *)
(*                                                                         *)
(* The monitor is one sequential loop.  Every call it makes to a           *)
(* collaborator (KeyManager, the five scanners) is one step whose result   *)
(* is chosen by the environment: the call returns after some time, raises  *)
(* an Exception, or never returns.  The plugin is one method whose two     *)
(* key-pair generations are likewise steps that return or raise.           *)
(***************************************************************************)
EXTENDS Integers, Sequences, FiniteSets, TLC

\* ------------------------------------------------------------------ bounds
MaxCycles == 3        \* iterations of the while loop that are explored
MaxDur == 1           \* a check that returns promptly takes 0..MaxDur
MaxCalls == 4         \* calls of PQCPlugin.execute that are explored
HistoryBound == 2     \* the bound a retained report history is held to

\* --------------------------------------------------------- program constants
SLEEP_INTERVAL == 60  \* time.sleep(60)

\* A check that overruns the monitoring interval.
LongDur == SLEEP_INTERVAL + 1

Durations == (0..MaxDur) \cup {LongDur}

\* The collaborators in the order __init__ constructs them.
Registry ==
  << "key_manager", "tf_privacy", "clip", "deepexploit", "aihids", "caldera" >>

\* The collaborator each statement of the try block calls, in statement order.
CheckTarget ==
  << "key_manager", "tf_privacy", "clip", "deepexploit", "aihids", "caldera" >>

\* The probe each statement of the try block calls, in statement order.
Checks ==
  << "check_keys", "check_privacy", "detect_anomalies",
     "scan_system", "monitor_host", "run_pentest" >>

NumChecks == Len(Checks)

\* What check_keys may return (opaque to the monitor).
KeyStatuses == {"healthy", "expired"}

\* What operation arguments execute may be given (opaque to the plugin).
Operations == {"op_a", "op_b"}

VARIABLES
  pc,          \* position in monitor(): "loop", a check, "log_status", "sleep",
               \* "except", "hung" (inside a call that never returns), "exited"
  cycle,       \* iterations of the while loop started so far
  key_status,  \* the local variable key_status ("unset" before its first binding)
  returned,    \* what check_keys returned in this iteration ("none" if it has not)
  outcomes,    \* this iteration's finished check calls, in call order
  logged,      \* log_status calls made in this iteration
  errors,      \* "Monitoring error" lines printed in this iteration
  reported,    \* every log_status call so far: its iteration and argument
  history,     \* the reports the monitor retains
  elapsed,     \* time since this iteration started
  waited,      \* time spent in time.sleep in this iteration
  stoppedAt,   \* where monitor() was when an interrupt ended it ("none" if not)
  xpc,         \* position in execute(): "idle", "kyber", "dilithium"
  calls,       \* execute() calls made so far
  operation,   \* the argument of the current execute() call
  keygens,     \* the key-pair generations attempted in the current call
  keypair,     \* the locals public_key, private_key (one opaque pair)
  xlog,        \* the self.log.info messages of the current call
  results      \* how each execute() call ended, in call order

mvars == << pc, cycle, key_status, returned, outcomes, logged, errors, reported, history,
            elapsed, waited, stoppedAt >>
xvars == << xpc, calls, operation, keygens, keypair, xlog, results >>
vars == << pc, cycle, key_status, returned, outcomes, logged, errors, reported, history,
           elapsed, waited, stoppedAt, xpc, calls, operation, keygens, keypair,
           xlog, results >>

\* ------------------------------------------------------------ SecurityMonitor

\* NextPc with the anomaly detection called before the privacy check.
NextPcReordered(i) ==
  IF i = 1 THEN Checks[3]
  ELSE IF i = 3 THEN Checks[2]
  ELSE IF i = 2 THEN Checks[4]
  ELSE IF i < NumChecks THEN Checks[i + 1] ELSE "log_status"

\* Where control goes when check i returns: the next statement of the try block.
NextPc(i) == IF i < NumChecks THEN Checks[i + 1] ELSE "log_status"

\* The position at which __init__ constructs a collaborator.
RegIndex(unit) == CHOOSE i \in 1..Len(Registry) : Registry[i] = unit

IsCheck(p) == \E i \in 1..NumChecks : Checks[i] = p

Outcome(i, s) == [unit |-> CheckTarget[i], probe |-> Checks[i], status |-> s]

\* SecurityMonitor() followed by monitor(): control is at the head of the loop.
MonitorInit ==
  /\ pc = "loop"
  /\ cycle = 0
  /\ key_status = "unset"
  /\ returned = "none"
  /\ outcomes = << >>
  /\ logged = 0
  /\ errors = 0
  /\ reported = << >>
  /\ history = << >>
  /\ elapsed = 0
  /\ waited = 0
  /\ stoppedAt = "none"

\* while True: the condition is constant, so an iteration always starts.
WhileTrue ==
  /\ pc = "loop"
  /\ cycle < MaxCycles
  /\ cycle' = cycle + 1
  /\ pc' = Checks[1]
  /\ outcomes' = << >>
  /\ logged' = 0
  /\ errors' = 0
  /\ elapsed' = 0
  /\ waited' = 0
  /\ returned' = "none"
  /\ UNCHANGED << key_status, reported, history, stoppedAt >>

\* CheckReturns with the result of check_keys dropped instead of bound.
CheckReturnsUnbound(i) ==
  /\ pc = Checks[i]
  /\ \E d \in Durations, k \in KeyStatuses :
       /\ elapsed' = elapsed + d
       /\ key_status' = key_status
       /\ returned' = IF i = 1 THEN k ELSE returned
  /\ outcomes' = Append(outcomes, Outcome(i, "Success"))
  /\ pc' = NextPc(i)
  /\ UNCHANGED << cycle, logged, errors, reported, history, waited, stoppedAt >>

\* Check i returns after d time units; check_keys binds key_status.
CheckReturns(i) ==
  /\ pc = Checks[i]
  /\ \E d \in Durations, k \in KeyStatuses :
       /\ elapsed' = elapsed + d
       /\ key_status' = IF i = 1 THEN k ELSE key_status
       /\ returned' = IF i = 1 THEN k ELSE returned
  /\ outcomes' = Append(outcomes, Outcome(i, "Success"))
  /\ pc' = NextPc(i)
  /\ UNCHANGED << cycle, logged, errors, reported, history, waited, stoppedAt >>

\* CheckRaises without the except clause: the error leaves monitor().
CheckRaisesUncaught(i) ==
  /\ pc = Checks[i]
  /\ \E d \in Durations : elapsed' = elapsed + d
  /\ outcomes' = Append(outcomes, Outcome(i, "Failure"))
  /\ pc' = "exited"
  /\ UNCHANGED << cycle, key_status, returned, logged, errors, reported, history, waited,
                  stoppedAt >>

\* Check i raises an Exception after d time units: control leaves the try
\* block for the except clause, skipping the statements after the call.
CheckRaises(i) ==
  /\ pc = Checks[i]
  /\ \E d \in Durations : elapsed' = elapsed + d
  /\ outcomes' = Append(outcomes, Outcome(i, "Failure"))
  /\ pc' = "except"
  /\ UNCHANGED << cycle, key_status, returned, logged, errors, reported, history, waited,
                  stoppedAt >>

\* Check i never returns: the call is made without a timeout, so control
\* stays inside it.
CheckHangs(i) ==
  /\ pc = Checks[i]
  /\ pc' = "hung"
  /\ UNCHANGED << cycle, key_status, returned, outcomes, logged, errors, reported, history,
                  elapsed, waited, stoppedAt >>

\* self.log_status(key_status): the body is pass, so nothing is retained.
LogStatus ==
  /\ pc = "log_status"
  /\ logged' = logged + 1
  /\ reported' = Append(reported, [cycle |-> cycle, key_status |-> key_status])
  /\ history' = history
  /\ pc' = "sleep"
  /\ UNCHANGED << cycle, key_status, returned, outcomes, errors, elapsed, waited, stoppedAt >>

\* time.sleep(60), then back to the head of the loop.
Sleep ==
  /\ pc = "sleep"
  /\ elapsed' = elapsed + SLEEP_INTERVAL
  /\ waited' = waited + SLEEP_INTERVAL
  /\ pc' = "loop"
  /\ UNCHANGED << cycle, key_status, returned, outcomes, logged, errors, reported, history,
                  stoppedAt >>

\* ExceptHandler with the error swallowed silently (except: pass).
ExceptHandlerSilent ==
  /\ pc = "except"
  /\ errors' = errors
  /\ pc' = "loop"
  /\ UNCHANGED << cycle, key_status, returned, outcomes, logged, reported, history,
                  elapsed, waited, stoppedAt >>

\* ExceptHandler with a back-off sleep before the retry.
ExceptHandlerBackoff ==
  /\ pc = "except"
  /\ errors' = errors + 1
  /\ elapsed' = elapsed + SLEEP_INTERVAL
  /\ waited' = waited + SLEEP_INTERVAL
  /\ pc' = "loop"
  /\ UNCHANGED << cycle, key_status, returned, outcomes, logged, reported, history,
                  stoppedAt >>

\* except Exception as e: the message is printed, then back to the head of the loop.
ExceptHandler ==
  /\ pc = "except"
  /\ errors' = errors + 1
  /\ pc' = "loop"
  /\ UNCHANGED << cycle, key_status, returned, outcomes, logged, reported, history, elapsed,
                  waited, stoppedAt >>

\* KeyboardInterrupt or SystemExit reaches monitor(): neither is an Exception,
\* so the except clause does not catch it and monitor() ends where it stands.
Interrupt ==
  /\ pc # "exited"
  /\ stoppedAt' = pc
  /\ pc' = "exited"
  /\ UNCHANGED << cycle, key_status, returned, outcomes, logged, errors, reported, history,
                  elapsed, waited >>

MonitorStep ==
  \/ WhileTrue
  \/ \E i \in 1..NumChecks : CheckReturns(i)
  \/ \E i \in 1..NumChecks : CheckRaises(i)
  \/ \E i \in 1..NumChecks : CheckHangs(i)
  \/ LogStatus
  \/ Sleep
  \/ ExceptHandler

\* ------------------------------------------------------------------ PQCPlugin

Attempt(alg, ok) == [alg |-> alg, ok |-> ok]

\* A PQCPlugin on which execute has not been called.
PluginIdle ==
  /\ xpc = "idle"
  /\ calls = 0
  /\ operation = "none"
  /\ keygens = << >>
  /\ keypair = "unset"
  /\ xlog = << >>
  /\ results = << >>

\* execute(operation) is entered: the first log line is written.
Execute(op) ==
  /\ xpc = "idle"
  /\ calls < MaxCalls
  /\ calls' = calls + 1
  /\ operation' = op
  /\ keygens' = << >>
  /\ keypair' = "unset"
  /\ xlog' = << "Executing PQC testing" >>
  /\ xpc' = "kyber"
  /\ UNCHANGED results

\* KyberKeypairReturns with the generation made twice.
KyberKeypairRepeated ==
  /\ xpc = "kyber"
  /\ keygens' = keygens \o << Attempt("Kyber512", TRUE), Attempt("Kyber512", TRUE) >>
  /\ keypair' = "Kyber512"
  /\ xlog' = Append(xlog, "Generated Kyber key pair")
  /\ xpc' = "dilithium"
  /\ UNCHANGED << calls, operation, results >>

\* pqcrypto.kem.kyber512.keypair() returns: the pair is bound and logged.
KyberKeypairReturns ==
  /\ xpc = "kyber"
  /\ keygens' = Append(keygens, Attempt("Kyber512", TRUE))
  /\ keypair' = "Kyber512"
  /\ xlog' = Append(xlog, "Generated Kyber key pair")
  /\ xpc' = "dilithium"
  /\ UNCHANGED << calls, operation, results >>

\* KyberKeypairRaises with the error caught and execute carrying on.
KyberKeypairRaisesCaught ==
  /\ xpc = "kyber"
  /\ keygens' = Append(keygens, Attempt("Kyber512", FALSE))
  /\ xpc' = "dilithium"
  /\ UNCHANGED << calls, operation, keypair, xlog, results >>

\* pqcrypto.kem.kyber512.keypair() raises: execute has no handler, so the
\* error leaves execute.
KyberKeypairRaises ==
  /\ xpc = "kyber"
  /\ keygens' = Append(keygens, Attempt("Kyber512", FALSE))
  /\ results' = Append(results, "raised")
  /\ xpc' = "idle"
  /\ UNCHANGED << calls, operation, keypair, xlog >>

\* pqcrypto.sign.dilithium2.keypair() returns: the pair is rebound and
\* logged, and execute returns True.
DilithiumKeypairReturns ==
  /\ xpc = "dilithium"
  /\ keygens' = Append(keygens, Attempt("Dilithium2", TRUE))
  /\ keypair' = "Dilithium2"
  /\ xlog' = Append(xlog, "Generated Dilithium key pair")
  /\ results' = Append(results, "True")
  /\ xpc' = "idle"
  /\ UNCHANGED << calls, operation >>

\* pqcrypto.sign.dilithium2.keypair() raises: the error leaves execute.
DilithiumKeypairRaises ==
  /\ xpc = "dilithium"
  /\ keygens' = Append(keygens, Attempt("Dilithium2", FALSE))
  /\ results' = Append(results, "raised")
  /\ xpc' = "idle"
  /\ UNCHANGED << calls, operation, keypair, xlog >>

PluginStep ==
  \/ \E op \in Operations : Execute(op)
  \/ KyberKeypairReturns
  \/ KyberKeypairRaises
  \/ DilithiumKeypairReturns
  \/ DilithiumKeypairRaises

\* ------------------------------------------------------------ specifications

Init == MonitorInit /\ PluginIdle

Next ==
  \/ MonitorStep /\ UNCHANGED xvars
  \/ Interrupt /\ UNCHANGED xvars

\* The monitor process.
Spec == Init /\ [][Next]_vars

\* The interpreter keeps executing monitor(); interrupts are not promised.
FairSpec == Spec /\ WF_vars(MonitorStep /\ UNCHANGED xvars)

PluginNext == PluginStep /\ UNCHANGED mvars

\* A host calling execute on one plugin.
PluginSpec == Init /\ [][PluginNext]_vars

\* ------------------------------------------------------------------ claims

Last(q) == q[Len(q)]

\* The last n elements of q, in order (all of q when it is shorter).
LastN(q, n) == IF Len(q) <= n THEN q ELSE SubSeq(q, Len(q) - n + 1, Len(q))

\* An iteration of the loop has ended and control is back at the loop head.
CycleEnded == cycle >= 1 /\ pc = "loop"

\* monitor() was in the middle of an iteration when it was stopped.
StoppedMidTick == IsCheck(stoppedAt) \/ stoppedAt \in {"log_status", "hung"}

\* C1: a check that raises never ends the loop: the step in which a check
\* raises leads to the except clause, the except clause leads back to the loop
\* head, from the loop head the next iteration starts, and monitor() is left
\* only by an interrupt, never by a check's error.
ProbeErrorNeverEndsLoop ==
  /\ [](pc = "exited" => stoppedAt # "none")
  /\ [](pc = "except" => ENABLED ExceptHandler)
  /\ []((pc = "loop" /\ cycle < MaxCycles) => ENABLED WhileTrue)
  /\ [][ /\ (Len(outcomes') = Len(outcomes) + 1 /\ Last(outcomes').status = "Failure")
              => pc' = "except"
         /\ (pc = "except" /\ pc' # "exited") => pc' = "loop"
         /\ (pc = "loop" /\ pc' # "exited")
              => (pc' = Checks[1] /\ cycle' = cycle + 1) ]_vars

\* C1 witness: an earlier iteration ended without a report, which only a
\* raising check causes, and a further iteration has started.
ProbeErrorThenNextCycle ==
  /\ cycle >= 2
  /\ pc = Checks[1]
  /\ \E r \in 1..(cycle - 1) : \A j \in DOMAIN reported : reported[j].cycle # r

\* C2: at the end of every iteration each of the six checks has been
\* invoked exactly once, whether or not an earlier check failed.
EveryCheckRunsEveryCycle ==
  CycleEnded =>
    \A i \in 1..NumChecks :
      Cardinality({j \in DOMAIN outcomes : outcomes[j].probe = Checks[i]}) = 1

\* C3: every iteration ends with exactly one report (one log_status call),
\* also when a check failed in it.
OneReportPerTick == CycleEnded => logged = 1

\* C4: a check that never returns does not hold up the iteration: unless
\* monitor() is interrupted, the iteration it hangs in ends and control comes
\* back to the loop head, from where later iterations start.
HungCheckDoesNotBlockCycle == (pc = "hung") ~> (pc = "loop" \/ pc = "exited")

\* C5: in every iteration the outcomes are in registration order (the order
\* in which __init__ constructs the collaborators), whichever checks fail and
\* however long they take.
OutcomesInRegistrationOrder ==
  \A i, j \in DOMAIN outcomes :
    i < j => RegIndex(outcomes[i].unit) < RegIndex(outcomes[j].unit)

\* C5 witness: a later iteration in which the checks took time, all six have
\* an outcome and the last one failed.
SlowFailingCycleOrdered ==
  /\ cycle >= 2
  /\ Len(outcomes) = NumChecks
  /\ outcomes[NumChecks].status = "Failure"
  /\ elapsed > SLEEP_INTERVAL

\* C6: when monitor() is stopped in the middle of an iteration, that
\* iteration runs to completion (all six checks and the report) before
\* monitor() is left.
StopLetsTickFinish ==
  (pc = "exited" /\ StoppedMidTick) => (Len(outcomes) = NumChecks /\ logged = 1)

\* C7: iterations are aligned to their start.  Stated for the iterations in
\* which every check returned and the report was made: when that work took
\* d <= 60 the next iteration starts exactly 60 after this one started (the
\* wait is 60 - d), and when it took longer the next one starts at once,
\* without a wait.
TicksAlignedToTickStart ==
  (CycleEnded /\ logged = 1) =>
    LET d == elapsed - waited
    IN  /\ d <= SLEEP_INTERVAL => (elapsed = SLEEP_INTERVAL /\ waited = SLEEP_INTERVAL - d)
        /\ d > SLEEP_INTERVAL => waited = 0

\* C8: the retained history never exceeds its bound and is always the most
\* recent reports, in the order they were recorded.
HistoryIsRecentReports ==
  /\ Len(history) <= HistoryBound
  /\ history = LastN(reported, HistoryBound)

\* C10: a call of execute in which no key generation fails makes exactly
\* two generations, Kyber512 then Dilithium2, and returns True, whatever the
\* operation; while the call runs its generations are a prefix of those two.
ExecuteTwoKeypairsThenTrue ==
  /\ Len(results) = (IF xpc = "idle" THEN calls ELSE calls - 1)
  /\ (\A j \in DOMAIN keygens : keygens[j].ok) =>
       /\ Len(keygens) <= 2
       /\ \A j \in DOMAIN keygens :
            keygens[j].alg = << "Kyber512", "Dilithium2" >>[j]
       /\ (xpc = "idle" /\ calls >= 1) =>
            (Len(keygens) = 2 /\ results[calls] = "True")

\* C10 witness: a second call, with another operation, has returned True
\* after both generations.
ExecuteReturnedTrue ==
  /\ xpc = "idle"
  /\ calls >= 2
  /\ operation = "op_b"
  /\ results[calls] = "True"
  /\ Len(keygens) = 2

\* Every check of this iteration has returned normally.
AllChecksReturned ==
  /\ Len(outcomes) = NumChecks
  /\ \A j \in DOMAIN outcomes : outcomes[j].status = "Success"

\* A check of this iteration has raised.
SomeCheckRaised == \E j \in DOMAIN outcomes : outcomes[j].status = "Failure"

\* C11: the 60-second sleep is taken only at the end of an iteration in which
\* all six checks and log_status returned normally, and is taken then; an
\* iteration in which a check raised ends without any sleep, so the next one
\* starts at once, however many iterations fail in a row.
SleepOnlyAfterCleanCycle ==
  /\ waited \in {0, SLEEP_INTERVAL}
  /\ waited = SLEEP_INTERVAL => (AllChecksReturned /\ logged = 1)
  /\ (CycleEnded /\ AllChecksReturned) => waited = SLEEP_INTERVAL
  /\ SomeCheckRaised => waited = 0

\* C11 witness: three iterations in a row have failed and the loop is back at
\* its head without a report, hence without a sleep, in any of them.
FailingChecksRetriedWithoutSleep ==
  /\ cycle >= 3
  /\ pc = "loop"
  /\ SomeCheckRaised
  /\ reported = << >>
  /\ waited = 0

\* The log_status calls made in iteration c.
ReportsOf(c) == {j \in DOMAIN reported : reported[j].cycle = c}

\* C12: log_status is called in an iteration if and only if all six checks
\* of that iteration returned normally (never before they have, never when
\* one raised, always once they have and control has moved on), and the
\* key_status it is given is the value check_keys returned in that same
\* iteration.
LogStatusIffAllChecksReturned ==
  /\ logged \in {0, 1}
  /\ logged = Cardinality(ReportsOf(cycle))
  /\ logged = 1 => AllChecksReturned
  /\ (AllChecksReturned /\ pc \in {"sleep", "loop"}) => logged = 1
  /\ logged = 1 =>
       /\ returned \in KeyStatuses
       /\ Last(reported) = [cycle |-> cycle, key_status |-> returned]

\* C12 witness: an iteration with a raising check lies between two reported
\* ones, and the later report carries the other value, the one check_keys
\* returned in its own iteration.
LogStatusGetsFreshKeyStatus ==
  /\ cycle >= 3
  /\ logged = 1
  /\ Len(reported) = 2
  /\ reported[1].cycle = cycle - 2
  /\ reported[1].key_status # reported[2].key_status

\* C13: exactly one "Monitoring error" message is printed for an iteration in
\* which a check raised, and it has been printed when the iteration ends,
\* before the next iteration's check_keys call; none is printed for an
\* iteration in which no check raised.
OneErrorMessagePerFailedCycle ==
  /\ [](errors \in {0, 1})
  /\ [](errors = 1 => SomeCheckRaised)
  /\ []((pc = "loop" /\ SomeCheckRaised) => errors = 1)
  /\ [][pc' = Checks[1] =>
         /\ pc = "loop"
         /\ errors = (IF SomeCheckRaised THEN 1 ELSE 0)
         /\ errors' = 0 ]_vars

\* C13 witness: after an iteration that was reported and printed no message,
\* an iteration in which a check raised has ended with its one message.
ErrorMessagePrintedOnce ==
  /\ cycle >= 2
  /\ pc = "loop"
  /\ SomeCheckRaised
  /\ errors = 1
  /\ Len(reported) = cycle - 1

\* The generations of algorithm alg attempted in the current call.
AttemptsOf(alg) == {j \in DOMAIN keygens : keygens[j].alg = alg}

\* C14: execute neither retries nor handles errors: a generation that raises
\* is the last thing the call attempts, the call then ends with the error
\* going to the caller instead of True (after a raising Kyber512 generation
\* no Dilithium2 generation is attempted), and no generation is attempted
\* more than once in a call.
ExecuteNoRetryNoHandling ==
  /\ \A j \in DOMAIN keygens :
       ~keygens[j].ok =>
         /\ j = Len(keygens)
         /\ xpc = "idle"
         /\ Len(results) = calls
         /\ results[calls] = "raised"
  /\ (keygens # << >> /\ ~keygens[1].ok) => AttemptsOf("Dilithium2") = {}
  /\ Cardinality(AttemptsOf("Kyber512")) <= 1
  /\ Cardinality(AttemptsOf("Dilithium2")) <= 1
  /\ \A j \in DOMAIN results :
       (j < calls \/ xpc = "idle") => results[j] \in {"True", "raised"}

\* C14 witness: one call ended by a raising Kyber512 generation, and the
\* next by a raising Dilithium2 generation after Kyber512 succeeded.
ExecuteRaisedBothWays ==
  /\ calls >= 2
  /\ xpc = "idle"
  /\ results[calls] = "raised"
  /\ Len(keygens) = 2
  /\ keygens[1] = Attempt("Kyber512", TRUE)
  /\ keygens[2] = Attempt("Dilithium2", FALSE)
  /\ results[calls - 1] = "raised"

====
